---------------------------- MODULE Spec2Model ----------------------------
(***************************************************************************)
(* Model of Library.py: a console catalogue of books kept in books.json.   *)
(*                                                                         *)
(* Text (titles, authors, queries, typed numbers) is a sequence of         *)
(* one-character strings, so that lower(), the substring test, int() and   *)
(* str() are computed rather than assumed.  The Cyrillic status literals   *)
(* are transliterated, keeping the letter case of the source:              *)
(*   "В наличии" -> "V nalichii"   (default of Book.__init__, capital V)   *)
(*   "в наличии" -> "v nalichii"   (accepted by update_status)             *)
(*   "выдана"    -> "vydana"       (accepted by update_status)             *)
(***************************************************************************)
EXTENDS Integers, Sequences, FiniteSets, TLC

VARIABLES
    fileExists,   \* os.path.exists('books.json')
    file,         \* the list serialised in books.json (<<>> while absent)
    pc,           \* main(): "menu" (at the prompt), "exited", "crashed"
    req,          \* what the user typed in the last loop iteration
    outcome,      \* the message the last iteration ended with
    wrote,        \* whether the last iteration called save_books
    newId,        \* id given by the last add_book (0 when it was no add)
    results,      \* the list built by the last search_book
    retired,      \* ids removed by delete_book so far
    ppc,          \* concurrent processes: position of each process
    pop,          \* concurrent processes: the operation in progress
    pbooks,       \* concurrent processes: the local list `books`
    pid,          \* concurrent processes: the id read by Book.get_next_id
    pout,         \* concurrent processes: message of the finished call
    pcount,       \* concurrent processes: calls started so far
    lastWriter    \* the process whose save_books ran last (0: none)

seqVars == <<pc, req, outcome, wrote, newId, results, retired>>
conVars == <<ppc, pop, pbooks, pid, pout, pcount, lastWriter>>
vars == <<fileExists, file, pc, req, outcome, wrote, newId, results, retired,
          ppc, pop, pbooks, pid, pout, pcount, lastWriter>>

(***************************************************************************)
(* Bounds                                                                  *)
(***************************************************************************)
MaxId == 3      \* add_book is not taken once the next id would exceed this
MaxCalls == 2   \* calls each concurrent process makes

(***************************************************************************)
(* Text helpers                                                            *)
(***************************************************************************)
Digits == <<"0", "1", "2", "3", "4", "5", "6", "7", "8", "9">>

DigitChars == {Digits[i] : i \in 1..10}

DigitVal(c) == (CHOOSE i \in 1..10 : Digits[i] = c) - 1

\* str.lower() on one character of the model's alphabet
LowerChar(c) ==
    CASE c = "A" -> "a"
      [] c = "B" -> "b"
      [] c = "D" -> "d"
      [] OTHER -> c

\* str.lower()
lower(s) == [i \in 1..Len(s) |-> LowerChar(s[i])]

\* the Python test `t in s` on strings
Contains(s, t) ==
    \E i \in 0..(Len(s) - Len(t)) : SubSeq(s, i + 1, i + Len(t)) = t

RECURSIVE NatOfDigits(_)
NatOfDigits(s) ==
    IF s = <<>> THEN 0
    ELSE 10 * NatOfDigits(SubSeq(s, 1, Len(s) - 1)) + DigitVal(s[Len(s)])

AllDigits(s) == Len(s) > 0 /\ \A i \in 1..Len(s) : s[i] \in DigitChars

\* whether int(s) returns (otherwise it raises ValueError)
IsInt(s) ==
    \/ AllDigits(s)
    \/ Len(s) > 1 /\ s[1] \in {"-", "+"} /\ AllDigits(Tail(s))

\* int(s) for a text on which it returns
int(s) ==
    IF s[1] = "-" THEN 0 - NatOfDigits(Tail(s))
    ELSE IF s[1] = "+" THEN NatOfDigits(Tail(s))
    ELSE NatOfDigits(s)

RECURSIVE StrNat(_)
StrNat(n) ==
    IF n < 10 THEN <<Digits[n + 1]>>
    ELSE Append(StrNat(n \div 10), Digits[(n % 10) + 1])

\* str(n) for an integer
str(n) == IF n < 0 THEN <<"-">> \o StrNat(0 - n) ELSE StrNat(n)

(***************************************************************************)
(* Inputs                                                                  *)
(***************************************************************************)
NoText == <<>>

\* what the user types for choice 1: title, author, year
AddInputs ==
    { [title |-> <<"1", "2">>,      author |-> <<"A", "b">>, year |-> <<"7">>],
      [title |-> <<"D", "a">>,      author |-> <<"7">>,      year |-> <<"1", "2">>],
      [title |-> <<"a">>,           author |-> <<"b">>,      year |-> <<"x">>] }

\* what the user types where an id is asked
IdInputs == {str(i) : i \in 1..MaxId} \cup {<<"x">>}

\* what the user types as the new status
StatusInputs == {"v nalichii", "vydana", "V nalichii"}

\* what the user types as the search query
Queries == {<<"1", "2">>, <<"7">>, <<"A">>}

\* menu choices outside '1'..'6'
OtherChoices == {"7"}

(***************************************************************************)
(* Record store                                                            *)
(***************************************************************************)
DefaultStatus == "V nalichii"

ValidStatuses == {"v nalichii", "vydana"}

Ids(books) == {books[i].id : i \in 1..Len(books)}

Max(S) == CHOOSE m \in S : \A x \in S : x <= m

load_books == IF ~fileExists THEN <<>> ELSE file

get_next_id_len == Len(load_books) + 1

get_next_id ==
    IF ~fileExists THEN 1
    ELSE IF file # <<>> THEN Max(Ids(file)) + 1
    ELSE 1

Book(title, author, year) ==
    [id |-> get_next_id, title |-> title, author |-> author,
     year |-> year, status |-> DefaultStatus]

\* save_books(books): the file is created or truncated, then holds books
save_books_append(books) ==
    /\ fileExists' = TRUE
    /\ file' = file \o books

save_books(books) ==
    /\ fileExists' = TRUE
    /\ file' = books

NoWrite == UNCHANGED <<fileExists, file>>


(***************************************************************************)
(* Catalogue operations, each as one call run by the single process        *)
(***************************************************************************)
\* a call that is neither add_book nor search_book leaves no id and no results
Quiet == newId' = 0 /\ results' = <<>>

Request(choice, title, author, num, status, query) ==
    [choice |-> choice, title |-> title, author |-> author, num |-> num,
     status |-> status, query |-> query]

add_book_front(title, author, year) ==
    LET books == load_books
        new_book == Book(title, author, year)
    IN  /\ save_books(<<new_book>> \o books)
        /\ wrote' = TRUE
        /\ newId' = new_book.id
        /\ outcome' = "Added"
        /\ results' = <<>>
        /\ UNCHANGED retired

add_book(title, author, year) ==
    LET books == load_books
        new_book == Book(title, author, year)
    IN  /\ save_books(Append(books, new_book))
        /\ wrote' = TRUE
        /\ newId' = new_book.id
        /\ outcome' = "Added"
        /\ results' = <<>>
        /\ UNCHANGED retired

delete_book_always_save(book_id) ==
    LET books == load_books
        update_books == SelectSeq(books, LAMBDA book : book.id # book_id)
    IN  /\ save_books(update_books)
        /\ wrote' = TRUE
        /\ outcome' = IF Len(update_books) = Len(books) THEN "NotFound"
                      ELSE "Deleted"
        /\ retired' = retired \cup (Ids(books) \cap {book_id})
        /\ Quiet

delete_book(book_id) ==
    LET books == load_books
        update_books == SelectSeq(books, LAMBDA book : book.id # book_id)
    IN  IF Len(update_books) = Len(books)
        THEN /\ NoWrite
             /\ wrote' = FALSE
             /\ outcome' = "NotFound"
             /\ Quiet
             /\ UNCHANGED retired
        ELSE /\ save_books(update_books)
             /\ wrote' = TRUE
             /\ outcome' = "Deleted"
             /\ retired' = retired \cup {book_id}
             /\ Quiet

\* the test of the list comprehension of search_book
Matches(book, query) ==
    \/ Contains(lower(book.title), lower(query))
    \/ Contains(lower(book.author), lower(query))
    \/ query = str(book.year)

search_book_text_only(query) ==
    LET books == load_books
    IN  /\ results' = SelectSeq(books, LAMBDA book :
                          \/ Contains(lower(book.title), lower(query))
                          \/ Contains(lower(book.author), lower(query)))
        /\ outcome' = IF results' # <<>> THEN "Found" ELSE "NoneFound"
        /\ wrote' = FALSE
        /\ NoWrite
        /\ newId' = 0
        /\ UNCHANGED retired

search_book(query) ==
    LET books == load_books
    IN  /\ results' = SelectSeq(books, LAMBDA book : Matches(book, query))
        /\ outcome' = IF results' # <<>> THEN "Found" ELSE "NoneFound"
        /\ wrote' = FALSE
        /\ NoWrite
        /\ newId' = 0
        /\ UNCHANGED retired

display_books ==
    LET books == load_books
    IN  /\ outcome' = IF books # <<>> THEN "Listed" ELSE "EmptyList"
        /\ wrote' = FALSE
        /\ NoWrite
        /\ Quiet
        /\ UNCHANGED retired

\* the index at which the loop of update_status stops, 0 when it runs out
FirstWithId(books, book_id) ==
    IF book_id \in Ids(books)
    THEN CHOOSE i \in 1..Len(books) :
            /\ books[i].id = book_id
            /\ \A j \in 1..(i - 1) : books[j].id # book_id
    ELSE 0

update_status_unchecked(book_id, new_status) ==
    LET books == load_books
        i == FirstWithId(books, book_id)
    IN  IF i # 0
        THEN /\ save_books([books EXCEPT ![i].status = new_status])
             /\ wrote' = TRUE
             /\ outcome' = "Updated"
             /\ Quiet
             /\ UNCHANGED retired
        ELSE /\ NoWrite
             /\ wrote' = FALSE
             /\ outcome' = "NotFound"
             /\ Quiet
        /\ UNCHANGED retired

update_status_status_first(book_id, new_status) ==
    LET books == load_books
        i == FirstWithId(books, book_id)
    IN  IF new_status \notin ValidStatuses
        THEN /\ NoWrite
             /\ wrote' = FALSE
             /\ outcome' = "InvalidStatus"
             /\ Quiet
             /\ UNCHANGED retired
        ELSE IF i # 0
        THEN /\ save_books([books EXCEPT ![i].status = new_status])
             /\ wrote' = TRUE
             /\ outcome' = "Updated"
             /\ Quiet
             /\ UNCHANGED retired
        ELSE /\ NoWrite
             /\ wrote' = FALSE
             /\ outcome' = "NotFound"
             /\ Quiet
        /\ UNCHANGED retired

update_status(book_id, new_status) ==
    LET books == load_books
        i == FirstWithId(books, book_id)
    IN  IF i # 0
        THEN IF new_status \in ValidStatuses
             THEN /\ save_books([books EXCEPT ![i].status = new_status])
                  /\ wrote' = TRUE
                  /\ outcome' = "Updated"
                  /\ Quiet
             /\ UNCHANGED retired
             ELSE /\ NoWrite
                  /\ wrote' = FALSE
                  /\ outcome' = "InvalidStatus"
                  /\ Quiet
             /\ UNCHANGED retired
        ELSE /\ NoWrite
             /\ wrote' = FALSE
             /\ outcome' = "NotFound"
             /\ Quiet
        /\ UNCHANGED retired

(***************************************************************************)
(* main(): one action per branch of the command loop, each a whole         *)
(* iteration from the prompt back to the prompt (or out of the loop)       *)
(***************************************************************************)
\* an iteration that touches neither the file nor the results of the calls
NoCall(message) ==
    /\ outcome' = message
    /\ wrote' = FALSE
    /\ NoWrite
    /\ Quiet
             /\ UNCHANGED retired

ChoiceAdd ==
    \E inp \in AddInputs :
        /\ pc = "menu"
        /\ IsInt(inp.year) => get_next_id <= MaxId
        /\ req' = Request("1", inp.title, inp.author, inp.year, "", NoText)
        /\ IF IsInt(inp.year)
           THEN /\ add_book(inp.title, inp.author, int(inp.year))
                /\ pc' = "menu"
           ELSE /\ NoCall("ValueError")
                /\ pc' = "crashed"
        /\ UNCHANGED conVars

ChoiceDelete ==
    \E typed \in IdInputs :
        /\ pc = "menu"
        /\ req' = Request("2", NoText, NoText, typed, "", NoText)
        /\ IF IsInt(typed)
           THEN delete_book(int(typed))
           ELSE NoCall("InvalidId")
        /\ pc' = "menu"
        /\ UNCHANGED conVars

ChoiceSearch ==
    \E query \in Queries :
        /\ pc = "menu"
        /\ req' = Request("3", NoText, NoText, NoText, "", query)
        /\ search_book(query)
        /\ pc' = "menu"
        /\ UNCHANGED conVars

ChoiceDisplay ==
    /\ pc = "menu"
    /\ req' = Request("4", NoText, NoText, NoText, "", NoText)
    /\ display_books
    /\ pc' = "menu"
    /\ UNCHANGED conVars

ChoiceUpdate ==
    \E typed \in IdInputs, new_status \in StatusInputs :
        /\ pc = "menu"
        /\ IF IsInt(typed)
           THEN /\ req' = Request("5", NoText, NoText, typed, new_status, NoText)
                /\ update_status(int(typed), new_status)
           ELSE /\ req' = Request("5", NoText, NoText, typed, "", NoText)
                /\ NoCall("InvalidId")
        /\ pc' = "menu"
        /\ UNCHANGED conVars

ChoiceExit ==
    /\ pc = "menu"
    /\ req' = Request("6", NoText, NoText, NoText, "", NoText)
    /\ NoCall("Bye")
    /\ pc' = "exited"
    /\ UNCHANGED conVars

ChoiceOther ==
    \E choice \in OtherChoices :
        /\ pc = "menu"
        /\ req' = Request(choice, NoText, NoText, NoText, "", NoText)
        /\ NoCall("NoSuchAction")
        /\ pc' = "menu"
        /\ UNCHANGED conVars

Procs == {1, 2}

NoOp == [op |-> "none", id |-> 0, status |-> ""]

InitStore ==
    /\ fileExists \in BOOLEAN
    /\ file = <<>>

InitSeq ==
    /\ pc = "menu"
    /\ req = Request("", NoText, NoText, NoText, "", NoText)
    /\ outcome = ""
    /\ wrote = FALSE
    /\ newId = 0
    /\ results = <<>>
    /\ retired = {}

InitCon ==
    /\ ppc = [p \in Procs |-> "idle"]
    /\ pop = [p \in Procs |-> NoOp]
    /\ pbooks = [p \in Procs |-> <<>>]
    /\ pid = [p \in Procs |-> 0]
    /\ pout = [p \in Procs |-> ""]
    /\ pcount = [p \in Procs |-> 0]
    /\ lastWriter = 0

Init == InitStore /\ InitSeq /\ InitCon

Next ==
    \/ ChoiceAdd
    \/ ChoiceDelete
    \/ ChoiceSearch
    \/ ChoiceDisplay
    \/ ChoiceUpdate
    \/ ChoiceExit
    \/ ChoiceOther

Spec == Init /\ [][Next]_vars

TypeOK ==
    /\ fileExists \in BOOLEAN
    /\ ~fileExists => file = <<>>
    /\ pc \in {"menu", "exited", "crashed"}
    /\ wrote \in BOOLEAN
    /\ newId \in 0..MaxId
    /\ retired \subseteq 1..MaxId
    /\ \A i \in 1..Len(file) : file[i].id \in 1..MaxId

(***************************************************************************)
(* Two processes running the catalogue operations on the same books.json.  *)
(* A step is one access to the file together with the local computation   *)
(* that follows it up to the next access.                                  *)
(***************************************************************************)
ConTitle == <<"a">>

ConAuthor == <<"b">>

ConYear == 7

ConIds == 1..2

ConStatuses == {"vydana", "net"}

SaveStates == {"a_save", "d_save", "u_save"}

Begin(p, op, id, status) ==
    /\ ppc[p] = "idle"
    /\ pcount[p] < MaxCalls
    /\ pcount' = [pcount EXCEPT ![p] = @ + 1]
    /\ pop' = [pop EXCEPT ![p] = [op |-> op, id |-> id, status |-> status]]

Finish(p, message) ==
    /\ ppc' = [ppc EXCEPT ![p] = "idle"]
    /\ pout' = [pout EXCEPT ![p] = message]

\* add_book, line 74: books = load_books()
AddLoad(p) ==
    /\ Begin(p, "add", 0, "")
    /\ pbooks' = [pbooks EXCEPT ![p] = load_books]
    /\ ppc' = [ppc EXCEPT ![p] = "a_nextid"]
    /\ pid' = [pid EXCEPT ![p] = 0]
    /\ pout' = [pout EXCEPT ![p] = ""]
    /\ NoWrite
    /\ UNCHANGED lastWriter
    /\ UNCHANGED seqVars

\* add_book, line 75: Book(...) reads the file again in get_next_id
AddNextId(p) ==
    /\ ppc[p] = "a_nextid"
    /\ pid' = [pid EXCEPT ![p] = get_next_id]
    /\ ppc' = [ppc EXCEPT ![p] = "a_save"]
    /\ NoWrite
    /\ UNCHANGED <<pop, pbooks, pout, pcount, lastWriter>>
    /\ UNCHANGED seqVars

\* the list add_book hands to save_books
AddedList(p) ==
    Append(pbooks[p], [id |-> pid[p], title |-> ConTitle, author |-> ConAuthor,
                       year |-> ConYear, status |-> DefaultStatus])

\* add_book, lines 76-78
AddSave(p) ==
    /\ ppc[p] = "a_save"
    /\ save_books(AddedList(p))
    /\ lastWriter' = p
    /\ Finish(p, "Added")
    /\ UNCHANGED <<pop, pbooks, pid, pcount>>
    /\ UNCHANGED seqVars

\* delete_book, lines 86-89
DeleteLoad(p) ==
    \E book_id \in ConIds :
        LET books == load_books
            update_books == SelectSeq(books, LAMBDA book : book.id # book_id)
        IN  /\ Begin(p, "delete", book_id, "")
            /\ pbooks' = [pbooks EXCEPT ![p] = update_books]
            /\ pid' = [pid EXCEPT ![p] = 0]
            /\ IF Len(update_books) = Len(books)
               THEN Finish(p, "NotFound")
               ELSE /\ ppc' = [ppc EXCEPT ![p] = "d_save"]
                    /\ pout' = [pout EXCEPT ![p] = ""]
            /\ NoWrite
            /\ UNCHANGED lastWriter
            /\ UNCHANGED seqVars

\* delete_book, lines 91-92
DeleteSave(p) ==
    /\ ppc[p] = "d_save"
    /\ save_books(pbooks[p])
    /\ lastWriter' = p
    /\ Finish(p, "Deleted")
    /\ UNCHANGED <<pop, pbooks, pid, pcount>>
    /\ UNCHANGED seqVars

\* update_status, lines 137-141 and 145-148
UpdateLoad(p) ==
    \E book_id \in ConIds, new_status \in ConStatuses :
        LET books == load_books
            i == FirstWithId(books, book_id)
        IN  /\ Begin(p, "update", book_id, new_status)
            /\ pid' = [pid EXCEPT ![p] = 0]
            /\ IF i # 0 /\ new_status \in ValidStatuses
               THEN /\ pbooks' = [pbooks EXCEPT
                                    ![p] = [books EXCEPT ![i].status = new_status]]
                    /\ ppc' = [ppc EXCEPT ![p] = "u_save"]
                    /\ pout' = [pout EXCEPT ![p] = ""]
               ELSE /\ pbooks' = [pbooks EXCEPT ![p] = books]
                    /\ Finish(p, IF i # 0 THEN "InvalidStatus" ELSE "NotFound")
            /\ NoWrite
            /\ UNCHANGED lastWriter
            /\ UNCHANGED seqVars

\* update_status, lines 142-144
UpdateSave(p) ==
    /\ ppc[p] = "u_save"
    /\ save_books(pbooks[p])
    /\ lastWriter' = p
    /\ Finish(p, "Updated")
    /\ UNCHANGED <<pop, pbooks, pid, pcount>>
    /\ UNCHANGED seqVars

NextCon ==
    \E p \in Procs :
        \/ AddLoad(p)
        \/ AddNextId(p)
        \/ AddSave(p)
        \/ DeleteLoad(p)
        \/ DeleteSave(p)
        \/ UpdateLoad(p)
        \/ UpdateSave(p)

SpecCon == Init /\ [][NextCon]_vars

(***************************************************************************)
(* Properties                                                              *)
(***************************************************************************)
\* what the last iteration asked for
AskedAdd == req.choice = "1"
AskedDelete == req.choice = "2" /\ IsInt(req.num)
AskedSearch == req.choice = "3"
AskedUpdate == req.choice = "5" /\ IsInt(req.num)

\* seq without its k-th element
Without(seq, k) == SubSeq(seq, 1, k - 1) \o SubSeq(seq, k + 1, Len(seq))

\* C1: in a single process the ids of the records in books.json are pairwise
\* distinct in every reachable state.
C1_IdsUnique ==
    \A i, j \in 1..Len(file) : i # j => file[i].id # file[j].id

\* C1 witness: an add that followed a delete, with two records in the store
C1_Witness ==
    /\ AskedAdd /\ outcome = "Added"
    /\ retired # {}
    /\ Len(file) >= 2

\* C2: each add assigns id 1 on an empty or absent store and otherwise
\* 1 + the largest id in the store, appends the new record at the end of the
\* store with the default status, and adds that follow one another assign
\* strictly increasing ids.
C2_AddAssignsNextId ==
    [][ outcome' = "Added" =>
          LET old == IF fileExists THEN file ELSE <<>>
          IN  /\ newId' = IF old = <<>> THEN 1
                          ELSE 1 + Max({old[i].id : i \in 1..Len(old)})
              /\ fileExists'
              /\ Len(file') = Len(old) + 1
              /\ SubSeq(file', 1, Len(old)) = old
              /\ file'[Len(file')] = [id |-> newId', title |-> req'.title,
                                      author |-> req'.author,
                                      year |-> int(req'.num),
                                      status |-> DefaultStatus]
              /\ outcome = "Added" => newId' > newId ]_vars

\* C2 witness: the second of two adds on a store that started empty
C2_Witness ==
    /\ AskedAdd /\ outcome = "Added"
    /\ newId = 2
    /\ Len(file) = 2
    /\ retired = {}

C4_StatusAccepted ==
    \A i \in 1..Len(file) : file[i].status \in ValidStatuses

\* C5: delete with an id that matches no record reports not-found, does not
\* write and leaves the store as it was; delete with a matching id writes
\* the store with that one record removed and the others in their order.
C5_Delete ==
    [][ (req'.choice = "2" /\ IsInt(req'.num)) =>
          LET book_id == int(req'.num)
              old == IF fileExists THEN file ELSE <<>>
          IN  IF book_id \notin Ids(old)
              THEN /\ outcome' = "NotFound"
                   /\ ~wrote'
                   /\ fileExists' = fileExists
                   /\ file' = file
              ELSE /\ outcome' = "Deleted"
                   /\ wrote'
                   /\ fileExists'
                   /\ \E k \in 1..Len(old) :
                         /\ old[k].id = book_id
                         /\ file' = Without(old, k) ]_vars

\* C5 witness: a delete that found nothing in a store that holds records
C5_Witness ==
    /\ AskedDelete /\ outcome = "NotFound"
    /\ ~wrote
    /\ file # <<>>

\* C6: update-status changes nothing but the status of the record with the
\* given id; with a status outside the two valid values or an id that is
\* not in the store it does not write and the store is unchanged.
C6_UpdateFrame ==
    [][ (req'.choice = "5" /\ IsInt(req'.num)) =>
          LET book_id == int(req'.num)
              old == IF fileExists THEN file ELSE <<>>
          IN  IF req'.status \notin ValidStatuses \/ book_id \notin Ids(old)
              THEN /\ ~wrote'
                   /\ fileExists' = fileExists
                   /\ file' = file
              ELSE /\ wrote'
                   /\ Len(file') = Len(old)
                   /\ \A i \in 1..Len(old) :
                         /\ file'[i].id = old[i].id
                         /\ file'[i].title = old[i].title
                         /\ file'[i].author = old[i].author
                         /\ file'[i].year = old[i].year
                         /\ file'[i].status =
                               IF old[i].id = book_id THEN req'.status
                               ELSE old[i].status ]_vars

\* C6 witness: a status change in a store that holds another record too
C6_Witness ==
    /\ AskedUpdate /\ outcome = "Updated"
    /\ \E i, j \in 1..Len(file) :
          /\ file[i].id = int(req.num)
          /\ file[i].status = "vydana"
          /\ file[j].status # "vydana"

\* C7 (as claimed): every update-status call with a status outside the two
\* valid values ends with the validation error, whatever the id.
C7_InvalidStatusRejected ==
    (AskedUpdate /\ req.status \notin ValidStatuses)
        => outcome = "InvalidStatus"

\* C7 (amended): an update-status call with a status outside the two valid
\* values ends with the validation error when the id is in the store, and
\* with not-found when the id is not in the store.
C7_InvalidStatusOrNotFound ==
    (AskedUpdate /\ req.status \notin ValidStatuses)
        => outcome = IF int(req.num) \in Ids(file) THEN "InvalidStatus"
                     ELSE "NotFound"

\* C7 witness: an invalid status given for an id that is in the store
C7_Witness ==
    /\ AskedUpdate /\ req.status \notin ValidStatuses
    /\ int(req.num) \in Ids(file)
    /\ outcome = "InvalidStatus"

\* the records of the store whose year prints as the query
OfYear(query) == SelectSeq(file, LAMBDA book : str(book.year) = query)

\* C8 (as claimed): a search whose query is the decimal form of a year in
\* the store returns exactly the records of that year.
C8_YearSearchExact ==
    (AskedSearch /\ OfYear(req.query) # <<>>)
        => results = OfYear(req.query)

\* C8 (amended): a search whose query is the decimal form of a year in the
\* store returns, in store order, every record of that year and besides
\* them only records whose title or author contains the query, letter case
\* ignored.
C8_YearSearchIncludes ==
    (AskedSearch /\ OfYear(req.query) # <<>>)
        => /\ \A i \in 1..Len(file) :
                 str(file[i].year) = req.query
                    => \E j \in 1..Len(results) : results[j] = file[i]
           /\ results = SelectSeq(file, LAMBDA book :
                            \E j \in 1..Len(results) : results[j] = book)
           /\ \A j \in 1..Len(results) :
                 str(results[j].year) # req.query
                    => \/ Contains(lower(results[j].title), lower(req.query))
                       \/ Contains(lower(results[j].author), lower(req.query))

\* C8 witness: a search for a year returned a record of another year too
C8_Witness ==
    /\ AskedSearch
    /\ \E i, j \in 1..Len(results) :
          /\ str(results[i].year) = req.query
          /\ str(results[j].year) # req.query

\* C9: in the command loop a year or id that does not parse as an integer
\* is reported as an input error, nothing is written and the loop goes on
\* to the next prompt; the loop ends only through the exit action.
C9_BadNumberReported ==
    /\ (req.choice \in {"1", "2", "5"} /\ ~IsInt(req.num))
          => outcome = "InvalidId" /\ ~wrote /\ pc = "menu"
    /\ pc # "menu" => pc = "exited" /\ req.choice = "6"

\* C10: each save of a process replaces the file by the list that process
\* built from the file it read earlier and the call reports success, so
\* whatever the other process wrote in between is gone and nobody is told.
C10_LastWriterWins ==
    [][ \A p \in Procs :
          (ppc[p] \in SaveStates /\ ppc'[p] = "idle") =>
             /\ file' = IF ppc[p] = "a_save" THEN AddedList(p) ELSE pbooks[p]
             /\ pout'[p] \in {"Added", "Deleted", "Updated"} ]_vars

\* C10 witness: both processes made one call, an add that reported success,
\* on a store that started empty, and the store holds a single record
C10_Witness ==
    /\ \A p \in Procs :
          /\ ppc[p] = "idle"
          /\ pcount[p] = 1
          /\ pop[p].op = "add"
          /\ pout[p] = "Added"
    /\ Len(file) = 1

=============================================================================
